---- MODULE Spec2Model ----
(***************************************************************************)
(* The L-system turtle interpreter of crates/l_system/src/interpreter.rs,  *)
(* as a state machine.  One call of interpret() is a process with its own  *)
(* arguments and locals; Calls holds two call slots so that two calls can  *)
(* be compared and interleaved.                                            *)
(*                                                                         *)
(* Numbers.  The code computes in f32.  The arguments are drawn from small *)
(* whole numbers, on which the angle and length computations are exact and *)
(* are modelled by integers.  Positions and headings are f32 values with   *)
(* f32 rounding: a rotation does not give back exact coordinates.          *)
(* A string is a sequence of one-character strings.                        *)
(*                                                                         *)
(* The second part is the apply_forces system of                           *)
(* crates/forces/src/mechanics.rs: a world of entities, each with a Mass,  *)
(* a Velocity and an AppliedForce, and one action per frame.  Its numbers  *)
(* are f32 values too.  Forces lie along one axis, where the length of a   *)
(* vector is the magnitude of its one component.                           *)
(***************************************************************************)
EXTENDS Integers, Sequences, FiniteSets, TLC

\* ---------------------------------------------------------------- bounds

\* Every string of at most MaxLen characters is an input of Spec.
MaxLen == 4

\* apply_forces runs for at most MaxFrames frames.
MaxFrames == 3

\* ------------------------------------------------------------- constants

Calls == {1, 2}

\* HashSet::from(['F', '+', '-', '[', ']'])
valid_symbols == {"F", "+", "-", "[", "]"}

\* Characters outside the alphabet that the inputs may hold.
InvalidChars == {"X", "Y"}

Chars == valid_symbols \cup InvalidChars

\* Vec2::ZERO and Vec2::Y, as pairs of f32 (see f32 below)
ZERO == << <<0, 0>>, <<0, 0>> >>

Y == << <<0, 0>>, <<2^23, -23>> >>

\* The values the four f32 arguments are drawn from.
Angles == {0, 90}

Lengths == {1, 2}

Scales == {1, 2}

Variations == {0, 1}

\* The random keys of the HashSet's RandomState: one of two per call.
Seeds == {0, 1}

Configs == Angles \X Lengths \X Scales \X Variations

AllInputs == UNION {[1..n -> Chars] : n \in 0..MaxLen}

\* Longer inputs with sibling and nested branches, and invalid inputs.
SampleInputs ==
  { <<>>,
    <<"F">>,
    <<"[", "F", "]", "F">>,
    <<"[", "F", "]", "[", "F", "]">>,
    <<"[", "[", "+", "F", "]", "]", "-", "F">>,
    <<"F", "]">>,
    <<"[", "F", "]", "F", "]">>,
    <<"F", "]", "+", "F">>,
    <<"F", "]", "+", "F", "]">>,
    <<"F", "X">>,
    <<"F", "Y">>,
    <<"X", "Y">> }

SampleConfigs == { <<0, 1, 1, 0>>, <<90, 2, 2, 1>> }

\* ----------------------------------------------------------------- state

VARIABLES
  pc,              \* where each call is: idle, validate, loop, ok, err
  symbols,         \* argument: the symbol string
  rotation_angle,  \* argument, in degrees
  line_length,     \* argument
  scale_factor,    \* argument
  angle_variation, \* argument
  hash_seed,       \* the RandomState of valid_symbols
  vi,              \* characters the validation scan has passed
  stack,           \* Vec<(Vec2, Vec2, f32)>
  position,
  direction,
  output,          \* InterpreterOutput.positions
  current_scale,
  bracket_depth,
  ip,              \* characters the for loop has consumed
  result,          \* the value returned
  hist,            \* history: the locals after each consumed character
  mass,            \* per entity: Mass { value, is_infinite }
  linvel,          \* per entity: Velocity.linvel
  force,           \* per entity: AppliedForce.force
  duration,        \* per entity: AppliedForce.duration, None or Some(d)
  elapsed,         \* per entity: AppliedForce.elapsed
  frames           \* history: dt, linvel and elapsed before each frame run

args == <<symbols, rotation_angle, line_length, scale_factor, angle_variation,
          hash_seed>>

locals == <<stack, position, direction, output, current_scale, bracket_depth>>

ivars == <<pc, args, vi, locals, ip, result, hist>>

fvars == <<mass, linvel, force, duration, elapsed, frames>>

vars == <<ivars, fvars>>

\* --------------------------------------------------------------- helpers

RECURSIVE Pow(_, _)
\* f32::powf on a whole exponent: powf(b, 0) = 1.
Pow(b, e) == IF e <= 0 THEN 1 ELSE b * Pow(b, e - 1)

\* ---- f32.  A finite f32 is <<m, e>>, its value m * 2^e, with m = 0 = e or
\* 2^23 <= |m| < 2^24.  The two zeros are one value (they are == in Rust and
\* no operation here tells them apart); subnormals, infinities and NaN do
\* not arise from the arguments drawn.

Two23 == 2^23

Two24 == 2^24

F0 == <<0, 0>>

Sgn(n) == IF n < 0 THEN -1 ELSE 1

Mag(n) == IF n < 0 THEN -n ELSE n

\* The f32 nearest to s * N * 2^e (ties to even), for a natural N < 2^31.
FNorm(s, N, e) ==
  IF N = 0 THEN F0
  ELSE IF N < Two24
  THEN LET k == CHOOSE k \in 0..23 : N * 2^k >= Two23
       IN <<s * N * 2^k, e - k>>
  ELSE LET k == CHOOSE k \in 1..8 : N \div 2^k < Two24
           q == N \div 2^k
           r == N % 2^k
           h == 2^(k - 1)
           q1 == IF r > h \/ (r = h /\ q % 2 = 1) THEN q + 1 ELSE q
       IN IF q1 = Two24 THEN <<s * Two23, e + k + 1>> ELSE <<s * q1, e + k>>

\* n as f32, for an integer |n| < 2^31.
FromInt(n) == FNorm(Sgn(n), Mag(n), 0)

FNeg(a) == <<-a[1], a[2]>>

\* a * b in f32.  The 48-bit product of the mantissas is formed from 12-bit
\* halves; below its top bits only "is the rest zero" matters to the rounding.
FMul(a, b) ==
  IF a[1] = 0 \/ b[1] = 0 THEN F0
  ELSE LET ma == Mag(a[1])
           mb == Mag(b[1])
           a1 == ma \div 4096
           a0 == ma % 4096
           b1 == mb \div 4096
           b0 == mb % 4096
           mid == a1 * b0 + a0 * b1
           low == (mid % 4096) * 4096 + a0 * b0
           hi == a1 * b1 + mid \div 4096 + low \div Two24
           lo == low % Two24
           n == hi * 8 + (lo \div 2^22) * 2 + (IF lo % 2^22 = 0 THEN 0 ELSE 1)
       IN FNorm(Sgn(a[1]) * Sgn(b[1]), n, a[2] + b[2] + 21)

\* a + b in f32, |a| having the larger exponent: both in units of 2^(ea - 3),
\* the bits of b below that unit kept as one sticky bit.
FAddOrdered(a, b) ==
  LET d == a[2] - b[2]
      mb == Mag(b[1])
      bb == IF d <= 3 THEN mb * 2^(3 - d)
            ELSE IF d > 27 THEN 1
            ELSE 2 * (mb \div 2^(d - 2)) + (IF mb % 2^(d - 2) = 0 THEN 0 ELSE 1)
      sum == a[1] * 8 + Sgn(b[1]) * bb
  IN FNorm(Sgn(sum), Mag(sum), a[2] - 3)

FAdd(a, b) ==
  IF a[1] = 0 THEN b
  ELSE IF b[1] = 0 THEN a
  ELSE IF a[2] >= b[2] THEN FAddOrdered(a, b) ELSE FAddOrdered(b, a)

\* a <= b on f32 values that are not negative.
FLeq(a, b) ==
  \/ a[1] = 0
  \/ b[1] # 0 /\ (a[2] < b[2] \/ (a[2] = b[2] /\ a[1] <= b[1]))

\* |a|
FAbs(a) == <<Mag(a[1]), a[2]>>

\* a < b
FLt(a, b) == FAdd(a, FNeg(b))[1] < 0

RECURSIVE DivBits(_, _, _, _)
\* n more bits of the quotient rem / m by long division: <<quotient, rest>>.
DivBits(rem, m, n, q) ==
  IF n = 0 THEN <<q, rem>>
  ELSE IF rem >= m THEN DivBits(2 * (rem - m), m, n - 1, 2 * q + 1)
  ELSE DivBits(2 * rem, m, n - 1, 2 * q)

\* 1.0 / a, for a # 0
FRecip(a) ==
  LET qr == DivBits(Two23, Mag(a[1]), 27, 0)
      sticky == IF qr[2] # 0 THEN 1 ELSE 0
  IN FNorm(Sgn(a[1]), 2 * qr[1] + sticky, -50 - a[2])

\* sinf and cosf of half of deg.to_radians(), for the whole multiples of a
\* right angle: the f32 values of a correctly rounded libm.
SinHalfPos(deg) ==
  CASE deg = 0 -> F0
    [] deg = 90 -> <<11863283, -24>>
    [] deg = 180 -> <<8388608, -23>>
    [] deg = 270 -> <<11863283, -24>>
    [] deg = 360 -> <<-12303662, -47>>
    [] deg = 450 -> <<-11863282, -24>>
    [] deg = 540 -> <<-8388608, -23>>
    [] deg = 630 -> <<-11863285, -24>>
    [] deg = 720 -> <<12303662, -46>>

CosHalfPos(deg) ==
  CASE deg = 0 -> <<8388608, -23>>
    [] deg = 90 -> <<11863283, -24>>
    [] deg = 180 -> <<-12303662, -48>>
    [] deg = 270 -> <<-11863283, -24>>
    [] deg = 360 -> <<-8388608, -23>>
    [] deg = 450 -> <<-11863284, -24>>
    [] deg = 540 -> <<13426222, -50>>
    [] deg = 630 -> <<11863281, -24>>
    [] deg = 720 -> <<8388608, -23>>

SinHalf(deg) == IF deg < 0 THEN FNeg(SinHalfPos(-deg)) ELSE SinHalfPos(deg)

CosHalf(deg) == CosHalfPos(Mag(deg))

\* Quat::from_rotation_z(a.to_radians()).mul_vec3(v.extend(0.0)).truncate(),
\* a in degrees.  The quaternion is (0, 0, s, w); glam computes
\*   v * (w*w - b.b) + b * (2 * (v.b)) + (b x v) * (2 * w),   b = (0, 0, s),
\* where v.b = 0 and b x v = (-(s * v.y), s * v.x, 0).
RotateZ(a, v) ==
  LET s == SinHalf(a)
      w == CosHalf(a)
      k == FAdd(FMul(w, w), FNeg(FMul(s, s)))
      w2 == FMul(w, FromInt(2))
      cx == FNeg(FMul(s, v[2]))
      cy == FMul(s, v[1])
  IN << FAdd(FMul(v[1], k), FMul(cx, w2)), FAdd(FMul(v[2], k), FMul(cy, w2)) >>

VecAdd(u, v) == << FAdd(u[1], v[1]), FAdd(u[2], v[2]) >>

\* v * k, k a whole number.
VecScale(v, k) == << FMul(v[1], FromInt(k)), FMul(v[2], FromInt(k)) >>

\* valid_symbols.contains(&ch): the answer does not depend on the hash keys.
Contains(ch, seed) == ch \in valid_symbols

\* Mutant: the error names the character the scan stopped at.
InvalidSymbolErrorWithChar(c) ==
  [kind |-> "Err", positions |-> <<>>, message |-> symbols[c][vi[c] + 1]]

\* Err("Invalid symbol in L-System string".to_string())
InvalidSymbolError(c) ==
  [kind |-> "Err", positions |-> <<>>, message |-> "Invalid symbol in L-System string"]

\* Ok(output)
OkResult(c) == [kind |-> "Ok", positions |-> output[c], message |-> ""]

NoResult == [kind |-> "None", positions |-> <<>>, message |-> ""]

\* The locals of a call as one value.
Snapshot(c) ==
  [ position |-> position[c], direction |-> direction[c],
    current_scale |-> current_scale[c], bracket_depth |-> bracket_depth[c],
    stack |-> stack[c], output |-> output[c] ]

\* --------------------------------------------------------------- actions

\* A caller invokes interpret(symbols, ...) in slot c.  The frame is new:
\* no local of an earlier call is visible in it.
Call(c, inputs, configs, seeds, from) ==
  /\ pc[c] \in from
  /\ \E s \in inputs, cfg \in configs, k \in seeds :
       /\ symbols' = [symbols EXCEPT ![c] = s]
       /\ rotation_angle' = [rotation_angle EXCEPT ![c] = cfg[1]]
       /\ line_length' = [line_length EXCEPT ![c] = cfg[2]]
       /\ scale_factor' = [scale_factor EXCEPT ![c] = cfg[3]]
       /\ angle_variation' = [angle_variation EXCEPT ![c] = cfg[4]]
       /\ hash_seed' = [hash_seed EXCEPT ![c] = k]
  /\ pc' = [pc EXCEPT ![c] = "validate"]
  /\ vi' = [vi EXCEPT ![c] = 0]
  /\ ip' = [ip EXCEPT ![c] = 0]
  /\ stack' = [stack EXCEPT ![c] = <<>>]
  /\ position' = [position EXCEPT ![c] = ZERO]
  /\ direction' = [direction EXCEPT ![c] = ZERO]
  /\ output' = [output EXCEPT ![c] = <<>>]
  /\ current_scale' = [current_scale EXCEPT ![c] = 0]
  /\ bracket_depth' = [bracket_depth EXCEPT ![c] = 0]
  /\ result' = [result EXCEPT ![c] = NoResult]
  /\ hist' = [hist EXCEPT ![c] = <<>>]

\* The first call of a slot, on any input.
CallAny(c) == Call(c, AllInputs, Configs, {0}, {"idle"})

\* A call of a slot on a sample input: the first, or one after a return.
CallSample(c) == Call(c, SampleInputs, SampleConfigs, Seeds, {"idle", "ok", "err"})

\* symbols.chars().any(|ch| !valid_symbols.contains(&ch)): the closure is false
\* on the next character, so the scan goes on.
ValidateChar(c) ==
  /\ pc[c] = "validate"
  /\ vi[c] < Len(symbols[c])
  /\ Contains(symbols[c][vi[c] + 1], hash_seed[c])
  /\ vi' = [vi EXCEPT ![c] = @ + 1]
  /\ UNCHANGED <<pc, args, locals, ip, result, hist>>

\* any() is true on the next character: return Err(..).
Reject(c) ==
  /\ pc[c] = "validate"
  /\ vi[c] < Len(symbols[c])
  /\ ~Contains(symbols[c][vi[c] + 1], hash_seed[c])
  /\ pc' = [pc EXCEPT ![c] = "err"]
  /\ result' = [result EXCEPT ![c] = InvalidSymbolError(c)]
  /\ UNCHANGED <<args, vi, locals, ip, hist>>

\* Mutant: the loop starts without waiting for the scan, so that an invalid
\* character is only met during the traversal.
SetupLazy(c) ==
  /\ pc[c] = "validate"
  /\ vi[c] <= Len(symbols[c])
  /\ stack' = [stack EXCEPT ![c] = <<>>]
  /\ position' = [position EXCEPT ![c] = ZERO]
  /\ direction' = [direction EXCEPT ![c] = Y]
  /\ output' = [output EXCEPT ![c] = <<>>]
  /\ current_scale' = [current_scale EXCEPT ![c] = 1]
  /\ bracket_depth' = [bracket_depth EXCEPT ![c] = 0]
  /\ pc' = [pc EXCEPT ![c] = "loop"]
  /\ ip' = [ip EXCEPT ![c] = 0]
  /\ hist' = [hist EXCEPT ![c] = << Snapshot(c)' >>]
  /\ UNCHANGED <<args, vi, result>>

\* Mutant: the initial heading is Vec2::X.
SetupHeadingX(c) ==
  /\ pc[c] = "validate"
  /\ vi[c] = Len(symbols[c])
  /\ stack' = [stack EXCEPT ![c] = <<>>]
  /\ position' = [position EXCEPT ![c] = ZERO]
  /\ direction' = [direction EXCEPT ![c] = << <<2^23, -23>>, <<0, 0>> >>]
  /\ output' = [output EXCEPT ![c] = <<>>]
  /\ current_scale' = [current_scale EXCEPT ![c] = 1]
  /\ bracket_depth' = [bracket_depth EXCEPT ![c] = 0]
  /\ pc' = [pc EXCEPT ![c] = "loop"]
  /\ ip' = [ip EXCEPT ![c] = 0]
  /\ hist' = [hist EXCEPT ![c] = << Snapshot(c)' >>]
  /\ UNCHANGED <<args, vi, result>>

\* any() is false on the whole string: the locals are initialised.
Setup(c) ==
  /\ pc[c] = "validate"
  /\ vi[c] = Len(symbols[c])
  /\ stack' = [stack EXCEPT ![c] = <<>>]
  /\ position' = [position EXCEPT ![c] = ZERO]
  /\ direction' = [direction EXCEPT ![c] = Y]
  /\ output' = [output EXCEPT ![c] = <<>>]
  /\ current_scale' = [current_scale EXCEPT ![c] = 1]
  /\ bracket_depth' = [bracket_depth EXCEPT ![c] = 0]
  /\ pc' = [pc EXCEPT ![c] = "loop"]
  /\ ip' = [ip EXCEPT ![c] = 0]
  /\ hist' = [hist EXCEPT ![c] = << Snapshot(c)' >>]
  /\ UNCHANGED <<args, vi, result>>

\* The for loop is at character ch.
AtSymbol(c, ch) ==
  /\ pc[c] = "loop"
  /\ ip[c] < Len(symbols[c])
  /\ symbols[c][ip[c] + 1] = ch

\* What every arm of the match shares: the loop moves on.
Advance(c) ==
  /\ ip' = [ip EXCEPT ![c] = @ + 1]
  /\ hist' = [hist EXCEPT ![c] = Append(@, Snapshot(c)')]
  /\ UNCHANGED <<pc, args, vi, result>>

\* Mutant: the depth multiplies the scale factor instead of raising it.
ScaledLengthLinear(c) ==
  line_length[c] * current_scale[c] * scale_factor[c] * bracket_depth[c]

\* line_length * current_scale * scale_factor.powf(bracket_depth as f32)
ScaledLength(c) ==
  line_length[c] * current_scale[c] * Pow(scale_factor[c], bracket_depth[c])

\* Mutant: 'F' emits its segment and leaves the turtle where it was.
ForwardKeepsPosition(c) ==
  /\ AtSymbol(c, "F")
  /\ LET new_position == VecAdd(position[c], VecScale(direction[c], ScaledLength(c)))
     IN output' = [output EXCEPT ![c] = Append(@, <<position[c], new_position>>)]
  /\ UNCHANGED <<stack, position, direction, current_scale, bracket_depth>>
  /\ Advance(c)

\* Mutant: an 'F' that continues the last segment extends it instead of
\* emitting a new one.
ForwardMerge(c) ==
  /\ AtSymbol(c, "F")
  /\ LET new_position == VecAdd(position[c], VecScale(direction[c], ScaledLength(c)))
         n == Len(output[c])
     IN /\ output' = [output EXCEPT ![c] =
                        IF n > 0 /\ @[n][2] = position[c]
                        THEN [@ EXCEPT ![n] = <<@[1], new_position>>]
                        ELSE Append(@, <<position[c], new_position>>)]
        /\ position' = [position EXCEPT ![c] = new_position]
  /\ UNCHANGED <<stack, direction, current_scale, bracket_depth>>
  /\ Advance(c)

\* 'F'
Forward(c) ==
  /\ AtSymbol(c, "F")
  /\ LET new_position == VecAdd(position[c], VecScale(direction[c], ScaledLength(c)))
     IN /\ output' = [output EXCEPT ![c] = Append(@, <<position[c], new_position>>)]
        /\ position' = [position EXCEPT ![c] = new_position]
  /\ UNCHANGED <<stack, direction, current_scale, bracket_depth>>
  /\ Advance(c)

\* Mutant: the turn angle ignores the nesting depth.
VariedAngleNoDepth(c) == rotation_angle[c]

\* Mutant: the variation is drawn inside the interpreter, from the call's
\* random keys.
VariedAngleJitter(c) ==
  rotation_angle[c] * (1 + angle_variation[c] * (bracket_depth[c] + hash_seed[c]))

\* rotation_angle * (1.0 + angle_variation * bracket_depth as f32)
VariedAngle(c) == rotation_angle[c] * (1 + angle_variation[c] * bracket_depth[c])

\* '+'
TurnPlus(c) ==
  /\ AtSymbol(c, "+")
  /\ direction' = [direction EXCEPT ![c] = RotateZ(-VariedAngle(c), @)]
  /\ UNCHANGED <<stack, position, output, current_scale, bracket_depth>>
  /\ Advance(c)

\* Mutant: '-' turns and also takes a step along the new heading.
TurnMinusSteps(c) ==
  /\ AtSymbol(c, "-")
  /\ direction' = [direction EXCEPT ![c] = RotateZ(VariedAngle(c), @)]
  /\ position' = [position EXCEPT ![c] = VecAdd(@, RotateZ(VariedAngle(c), direction[c]))]
  /\ UNCHANGED <<stack, output, current_scale, bracket_depth>>
  /\ Advance(c)

\* Mutant: '-' turns the same way as '+'.
TurnMinusSameWay(c) ==
  /\ AtSymbol(c, "-")
  /\ direction' = [direction EXCEPT ![c] = RotateZ(-VariedAngle(c), @)]
  /\ UNCHANGED <<stack, position, output, current_scale, bracket_depth>>
  /\ Advance(c)

\* '-'
TurnMinus(c) ==
  /\ AtSymbol(c, "-")
  /\ direction' = [direction EXCEPT ![c] = RotateZ(VariedAngle(c), @)]
  /\ UNCHANGED <<stack, position, output, current_scale, bracket_depth>>
  /\ Advance(c)

\* Mutant: '[' saves the frame and forgets the depth.
PushNoDepth(c) ==
  /\ AtSymbol(c, "[")
  /\ stack' = [stack EXCEPT ![c] = Append(@, <<position[c], direction[c], current_scale[c]>>)]
  /\ UNCHANGED <<position, direction, output, current_scale, bracket_depth>>
  /\ Advance(c)

\* Mutant: the depth is one counter shared by all calls (a static).
PushSharedDepth(c) ==
  /\ AtSymbol(c, "[")
  /\ stack' = [stack EXCEPT ![c] = Append(@, <<position[c], direction[c], current_scale[c]>>)]
  /\ bracket_depth' = [d \in Calls |-> bracket_depth[d] + 1]
  /\ UNCHANGED <<position, direction, output, current_scale>>
  /\ Advance(c)

\* Mutant: the scale compounds in current_scale at every '['.
PushCompounding(c) ==
  /\ AtSymbol(c, "[")
  /\ stack' = [stack EXCEPT ![c] = Append(@, <<position[c], direction[c], current_scale[c]>>)]
  /\ bracket_depth' = [bracket_depth EXCEPT ![c] = @ + 1]
  /\ current_scale' = [current_scale EXCEPT ![c] = @ * scale_factor[c]]
  /\ UNCHANGED <<position, direction, output>>
  /\ Advance(c)

\* '['
Push(c) ==
  /\ AtSymbol(c, "[")
  /\ stack' = [stack EXCEPT ![c] = Append(@, <<position[c], direction[c], current_scale[c]>>)]
  /\ bracket_depth' = [bracket_depth EXCEPT ![c] = @ + 1]
  /\ UNCHANGED <<position, direction, output, current_scale>>
  /\ Advance(c)

\* Mutant: stack.pop().unwrap(): a ']' on an empty stack cannot be processed.
PopStrict(c) ==
  /\ AtSymbol(c, "]")
  /\ stack[c] # <<>>
  /\ LET top == stack[c][Len(stack[c])]
     IN /\ stack' = [stack EXCEPT ![c] = SubSeq(@, 1, Len(@) - 1)]
        /\ position' = [position EXCEPT ![c] = top[1]]
        /\ direction' = [direction EXCEPT ![c] = top[2]]
        /\ current_scale' = [current_scale EXCEPT ![c] = top[3]]
        /\ bracket_depth' = [bracket_depth EXCEPT ![c] = @ - 1]
  /\ UNCHANGED output
  /\ Advance(c)

\* Mutant: ']' restores the position and keeps the heading of the branch.
PopKeepHeading(c) ==
  /\ AtSymbol(c, "]")
  /\ IF stack[c] # <<>>
     THEN LET top == stack[c][Len(stack[c])]
          IN /\ stack' = [stack EXCEPT ![c] = SubSeq(@, 1, Len(@) - 1)]
             /\ position' = [position EXCEPT ![c] = top[1]]
             /\ current_scale' = [current_scale EXCEPT ![c] = top[3]]
             /\ bracket_depth' = [bracket_depth EXCEPT ![c] = @ - 1]
             /\ UNCHANGED direction
     ELSE UNCHANGED <<stack, position, direction, current_scale, bracket_depth>>
  /\ UNCHANGED output
  /\ Advance(c)

\* Mutant: the depth is decremented whether or not a frame was popped.
PopAlwaysDecrements(c) ==
  /\ AtSymbol(c, "]")
  /\ IF stack[c] # <<>>
     THEN LET top == stack[c][Len(stack[c])]
          IN /\ stack' = [stack EXCEPT ![c] = SubSeq(@, 1, Len(@) - 1)]
             /\ position' = [position EXCEPT ![c] = top[1]]
             /\ direction' = [direction EXCEPT ![c] = top[2]]
             /\ current_scale' = [current_scale EXCEPT ![c] = top[3]]
     ELSE UNCHANGED <<stack, position, direction, current_scale>>
  /\ bracket_depth' = [bracket_depth EXCEPT ![c] = @ - 1]
  /\ UNCHANGED output
  /\ Advance(c)

\* Mutant: ']' discards the last segment drawn inside the branch.
PopDropsSegment(c) ==
  /\ AtSymbol(c, "]")
  /\ IF stack[c] # <<>>
     THEN LET top == stack[c][Len(stack[c])]
          IN /\ stack' = [stack EXCEPT ![c] = SubSeq(@, 1, Len(@) - 1)]
             /\ position' = [position EXCEPT ![c] = top[1]]
             /\ direction' = [direction EXCEPT ![c] = top[2]]
             /\ current_scale' = [current_scale EXCEPT ![c] = top[3]]
             /\ bracket_depth' = [bracket_depth EXCEPT ![c] = @ - 1]
             /\ output' = [output EXCEPT ![c] = SubSeq(@, 1, Len(@) - 1)]
     ELSE UNCHANGED <<stack, position, direction, current_scale, bracket_depth, output>>
  /\ Advance(c)

\* ']'
Pop(c) ==
  /\ AtSymbol(c, "]")
  /\ IF stack[c] # <<>>
     THEN LET top == stack[c][Len(stack[c])]
          IN /\ stack' = [stack EXCEPT ![c] = SubSeq(@, 1, Len(@) - 1)]
             /\ position' = [position EXCEPT ![c] = top[1]]
             /\ direction' = [direction EXCEPT ![c] = top[2]]
             /\ current_scale' = [current_scale EXCEPT ![c] = top[3]]
             /\ bracket_depth' = [bracket_depth EXCEPT ![c] = @ - 1]
     ELSE UNCHANGED <<stack, position, direction, current_scale, bracket_depth>>
  /\ UNCHANGED output
  /\ Advance(c)

\* The loop is over: Ok(output).
Return(c) ==
  /\ pc[c] = "loop"
  /\ ip[c] = Len(symbols[c])
  /\ pc' = [pc EXCEPT ![c] = "ok"]
  /\ result' = [result EXCEPT ![c] = OkResult(c)]
  /\ UNCHANGED <<args, vi, locals, ip, hist>>

\* One step of the body of interpret() in slot c.  The match has a last arm,
\* `_ => {}`, for a character outside the alphabet: the scan lets none reach
\* the loop, so the arm has no step here.
Step(c) ==
  \/ ValidateChar(c)
  \/ Reject(c)
  \/ Setup(c)
  \/ Forward(c)
  \/ TurnPlus(c)
  \/ TurnMinus(c)
  \/ Push(c)
  \/ Pop(c)
  \/ Return(c)

\* --------------------------------------------------------- specifications

\* -------------------------------------------------- mechanics.rs: the world

Entities == {1, 2}

\* Option<f32>: None is the empty sequence, Some(d) the sequence of d.
None == <<>>

Some(d) == <<d>>

\* f32 values of the world
One == <<Two23, -23>>
Tenth == <<13421773, -27>>        \* 0.1 as f32
Quarter == <<Two23, -25>>
Thousandth == <<8589935, -33>>    \* 0.001 as f32
F32Max == <<Two24 - 1, 104>>      \* f32::MAX
F32Epsilon == <<Two23, -46>>      \* f32::EPSILON

\* Mass::new(1.0), Mass::new(2.0), Mass::new(0.0) (which new clamps to 0.001),
\* Mass::infinite(), and two masses written as struct literals: zero and -1.
Masses ==
  { [value |-> One, is_infinite |-> FALSE],
    [value |-> FromInt(2), is_infinite |-> FALSE],
    [value |-> Thousandth, is_infinite |-> FALSE],
    [value |-> F32Max, is_infinite |-> TRUE],
    [value |-> F0, is_infinite |-> FALSE],
    [value |-> FromInt(-1), is_infinite |-> FALSE] }

Forces == { <<FromInt(2), F0, F0>>, <<F0, FromInt(-4), F0>> }

\* None, Some(0.0), Some(0.25), Some(1.0)
Durations == { None, Some(F0), Some(Quarter), Some(One) }

\* time.delta_secs(): 0 on a first frame, 0.1 and 1
Deltas == { F0, Tenth, One }

Vec3Zero == <<F0, F0, F0>>

Vec3Add(u, v) == << FAdd(u[1], v[1]), FAdd(u[2], v[2]), FAdd(u[3], v[3]) >>

Vec3Scale(v, k) == << FMul(v[1], k), FMul(v[2], k), FMul(v[3], k) >>

\* Vec3::length_squared
norm_squared(v) == FAdd(FAdd(FMul(v[1], v[1]), FMul(v[2], v[2])), FMul(v[3], v[3]))

\* Vec3::length of a vector along one axis: sqrt(x * x) is |x| in f32.
Length(v) ==
  CASE v[2] = F0 /\ v[3] = F0 -> FAbs(v[1])
    [] v[1] = F0 /\ v[3] = F0 -> FAbs(v[2])
    [] v[1] = F0 /\ v[2] = F0 -> FAbs(v[3])

\* Vec3::normalize: self * self.length().recip()
normalize(v) == Vec3Scale(v, FRecip(Length(v)))

\* max(a, b) on f32
FMax(a, b) == IF FLt(a, b) THEN b ELSE a

\* Mass::inverse
inverse(m) == IF m.is_infinite THEN F0 ELSE FRecip(FMax(m.value, F32Epsilon))

\* Mass::is_negligible
is_negligible(m) == FLt(m.value, Thousandth)

\* AppliedForce::is_expired
is_expired(e) == duration[e] # None /\ ~FLt(elapsed[e], duration[e][1])

\* Mutant: only immovable bodies are skipped.
SkippedInfiniteOnly(e) == mass[e].is_infinite

\* The test of line 141
Skipped(e) == mass[e].is_infinite \/ is_negligible(mass[e])

max_acceleration == FromInt(1000)

\* Lines 146-154: F = ma, capped
Acceleration(e) ==
  LET acceleration == Vec3Scale(force[e], inverse(mass[e]))
  IN IF FLt(FMul(max_acceleration, max_acceleration), norm_squared(acceleration))
     THEN Vec3Scale(normalize(acceleration), max_acceleration)
     ELSE acceleration

\* Line 160
NewElapsed(e, dt) == FAdd(elapsed[e], dt)

\* Line 157
NewLinvel(e, dt) == Vec3Add(linvel[e], Vec3Scale(Acceleration(e), dt))

\* One run of the system apply_forces, with time.delta_secs() = dt: the loop
\* over the query has exclusive access to the components it changes.
ApplyForces(dt) ==
  /\ Len(frames) < MaxFrames
  /\ linvel' = [e \in Entities |-> IF Skipped(e) THEN linvel[e] ELSE NewLinvel(e, dt)]
  /\ elapsed' = [e \in Entities |-> IF Skipped(e) THEN elapsed[e] ELSE NewElapsed(e, dt)]
  /\ frames' = Append(frames, [dt |-> dt, linvel |-> linvel, elapsed |-> elapsed])
  /\ UNCHANGED <<mass, force, duration>>

\* The world of the interpreter's specifications: entities at rest.
InitWorld ==
  /\ mass = [e \in Entities |-> [value |-> One, is_infinite |-> FALSE]]
  /\ linvel = [e \in Entities |-> Vec3Zero]
  /\ force = [e \in Entities |-> Vec3Zero]
  /\ duration = [e \in Entities |-> None]
  /\ elapsed = [e \in Entities |-> F0]
  /\ frames = <<>>

\* ------------------------------------------------------------ specifications

InitCalls ==
  /\ pc = [c \in Calls |-> "idle"]
  /\ symbols = [c \in Calls |-> <<>>]
  /\ rotation_angle = [c \in Calls |-> 0]
  /\ line_length = [c \in Calls |-> 0]
  /\ scale_factor = [c \in Calls |-> 0]
  /\ angle_variation = [c \in Calls |-> 0]
  /\ hash_seed = [c \in Calls |-> 0]
  /\ vi = [c \in Calls |-> 0]
  /\ stack = [c \in Calls |-> <<>>]
  /\ position = [c \in Calls |-> ZERO]
  /\ direction = [c \in Calls |-> ZERO]
  /\ output = [c \in Calls |-> <<>>]
  /\ current_scale = [c \in Calls |-> 0]
  /\ bracket_depth = [c \in Calls |-> 0]
  /\ ip = [c \in Calls |-> 0]
  /\ result = [c \in Calls |-> NoResult]
  /\ hist = [c \in Calls |-> <<>>]

Init == InitCalls /\ InitWorld

\* One caller: a call in slot 1, on every input up to MaxLen.
Next == (\E c \in {1} : CallAny(c) \/ Step(c)) /\ UNCHANGED fvars

Spec == Init /\ [][Next]_vars

\* Two callers, their steps interleaved, on the sample inputs.
NextPair == (\E c \in Calls : CallSample(c) \/ Step(c)) /\ UNCHANGED fvars

SpecPair == Init /\ [][NextPair]_vars

\* Every world of two entities, each with a mass of Masses, a force of Forces
\* and a duration of Durations (AppliedForce::new(f) or
\* AppliedForce::new(f).with_duration(d)), at rest.
InitForces ==
  /\ InitCalls
  /\ mass \in [Entities -> Masses]
  /\ force \in [Entities -> Forces]
  /\ duration \in [Entities -> Durations]
  /\ linvel = [e \in Entities |-> Vec3Zero]
  /\ elapsed = [e \in Entities |-> F0]
  /\ frames = <<>>

NextForces == (\E dt \in Deltas : ApplyForces(dt)) /\ UNCHANGED ivars

SpecForces == InitForces /\ [][NextForces]_vars

\* ------------------------------------------------ the words of the claims

\* The fixed alphabet, as the specification states it.
Alphabet == {"F", "+", "-", "[", "]"}

HasInvalid(s) == \E k \in 1..Len(s) : s[k] \notin Alphabet

\* The first character of s outside the alphabet.
Offending(s) == s[CHOOSE k \in 1..Len(s) :
                    /\ s[k] \notin Alphabet
                    /\ \A j \in 1..(k - 1) : s[j] \in Alphabet]

RECURSIVE CountF(_, _)
\* The number of 'F' among the first k characters of s.
CountF(s, k) ==
  IF k = 0 THEN 0 ELSE CountF(s, k - 1) + (IF s[k] = "F" THEN 1 ELSE 0)

RECURSIVE NestDepth(_, _)
\* The bracket depth after the first k characters of s: '[' opens a level, a
\* ']' closes the innermost open level, a ']' with none open is ignored.
NestDepth(s, k) ==
  IF k = 0 THEN 0
  ELSE LET d == NestDepth(s, k - 1)
       IN CASE s[k] = "[" -> d + 1
            [] s[k] = "]" -> IF d > 0 THEN d - 1 ELSE 0
            [] OTHER -> d

RECURSIVE OpenBefore(_, _, _)
\* Scanning s leftwards from index j with `need` levels to close: the index of
\* the '[' that closes the last of them, 0 when there is none.
OpenBefore(s, j, need) ==
  IF j = 0 THEN 0
  ELSE CASE s[j] = "]" -> OpenBefore(s, j - 1, need + 1)
         [] s[j] = "[" -> IF need = 1 THEN j ELSE OpenBefore(s, j - 1, need - 1)
         [] OTHER -> OpenBefore(s, j - 1, need)

\* The index of the '[' matching the ']' at index k of s, 0 when unmatched.
MatchOpen(s, k) == OpenBefore(s, k - 1, 1)

RECURSIVE Balance(_, _)
\* '[' minus ']' among the first k characters of s.
Balance(s, k) ==
  IF k = 0 THEN 0
  ELSE Balance(s, k - 1) + (CASE s[k] = "[" -> 1 [] s[k] = "]" -> -1 [] OTHER -> 0)

\* Every ']' closes an earlier '[' and every '[' is closed.
WellFormed(s) ==
  /\ \A k \in 0..Len(s) : Balance(s, k) >= 0
  /\ Balance(s, Len(s)) = 0

\* The point with the whole coordinates x and y.
Pt(x, y) == <<FromInt(x), FromInt(y)>>

\* The locals of call c after its first m characters.
After(c, m) == hist[c][m + 1]

\* Call c runs the loop or has returned from it.
Running(c) == pc[c] \in {"loop", "ok"}

SameConfig(c, d) ==
  /\ rotation_angle[c] = rotation_angle[d]
  /\ line_length[c] = line_length[d]
  /\ scale_factor[c] = scale_factor[d]
  /\ angle_variation[c] = angle_variation[d]

IsConfig(c, cfg) ==
  /\ rotation_angle[c] = cfg[1]
  /\ line_length[c] = cfg[2]
  /\ scale_factor[c] = cfg[3]
  /\ angle_variation[c] = cfg[4]

\* ---------------------------------------------------------------- claims

\* C1: an input with a character outside the alphabet, at any position, never
\* reaches the loop: the call fails, no local is initialised, no segment is
\* emitted and no output is returned.
C1_InvalidInputNoOutput ==
  \A c \in Calls :
    HasInvalid(symbols[c]) =>
      /\ pc[c] \in {"validate", "err"}
      /\ output[c] = <<>>
      /\ hist[c] = <<>>
      /\ stack[c] = <<>> /\ position[c] = ZERO /\ direction[c] = ZERO
      /\ result[c].kind # "Ok"
      /\ result[c].positions = <<>>
      /\ pc[c] = "validate" => result[c] = NoResult

\* C1 witness: a call has failed on an input whose first character is a valid F.
C1_Witness ==
  \E c \in Calls :
    /\ pc[c] = "err"
    /\ Len(symbols[c]) >= 3
    /\ symbols[c][1] = "F" /\ symbols[c][2] = "F" /\ symbols[c][3] \notin Alphabet

C3_ValidInputSucceeds ==
  \A c \in Calls :
    /\ pc[c] = "err" => HasInvalid(symbols[c])
    /\ (~HasInvalid(symbols[c]) /\ pc[c] = "validate") =>
         ENABLED (ValidateChar(c) \/ Setup(c))
    /\ (~HasInvalid(symbols[c]) /\ pc[c] = "loop") =>
         \/ AtSymbol(c, "F") \/ AtSymbol(c, "+") \/ AtSymbol(c, "-")
         \/ ENABLED (Push(c) \/ Pop(c) \/ Return(c))
    /\ pc[c] = "ok" => /\ result[c].kind = "Ok"
                       /\ ip[c] = Len(symbols[c])
                       /\ ~HasInvalid(symbols[c])
    /\ (pc[c] = "ok" /\ symbols[c] = <<>>) => result[c].positions = <<>>

\* C3 witness: a call has returned Ok on an input with an unmatched ']' and a
\* never-closed '['.
C3_Witness ==
  \E c \in Calls :
    /\ pc[c] = "ok"
    /\ symbols[c] = <<"]", "F", "[", "F">>
    /\ result[c].kind = "Ok"

\* C4: after any prefix the output holds as many segments as the prefix holds
\* 'F', and the returned sequence as many as the whole input.
C4_SegmentCountIsFCount ==
  \A c \in Calls :
    /\ Running(c) => Len(output[c]) = CountF(symbols[c], ip[c])
    /\ pc[c] = "ok" => Len(result[c].positions) = CountF(symbols[c], Len(symbols[c]))

\* C4 witness: a call has returned on an input with two 'F' and a closed branch.
C4_Witness ==
  \E c \in Calls :
    /\ pc[c] = "ok"
    /\ symbols[c] = <<"[", "F", "]", "F">>
    /\ Len(result[c].positions) = 2
\* C5: a ']' processed with a non-empty stack has a matching '[', and it
\* leaves position and heading as they were when that '[' was processed,
\* whatever came between; in "[F]F" the second segment starts at (0,0).
C5_PopRestoresBranchPoint ==
  \A c \in Calls :
    /\ \A k \in 1..Len(hist[c]) - 1 :
         (symbols[c][k] = "]" /\ After(c, k - 1).stack # <<>>) =>
           LET j == MatchOpen(symbols[c], k)
           IN /\ j # 0
              /\ After(c, k).position = After(c, j - 1).position
              /\ After(c, k).direction = After(c, j - 1).direction
              /\ After(c, k).position = After(c, j).position
              /\ After(c, k).direction = After(c, j).direction
    /\ (pc[c] = "ok" /\ symbols[c] = <<"[", "F", "]", "F">>
        /\ IsConfig(c, <<0, 1, 1, 0>>)) =>
         /\ result[c].positions[2][1] = Pt(0, 0)
         /\ result[c].positions[1][2] = Pt(0, 1)

\* C5 witness: a ']' has restored a position and a heading that both changed
\* inside the branch.
C5_Witness ==
  \E c \in Calls :
    /\ pc[c] = "loop" /\ ip[c] = 4
    /\ symbols[c][1] = "[" /\ symbols[c][2] = "+"
    /\ symbols[c][3] = "F" /\ symbols[c][4] = "]"
    /\ rotation_angle[c] = 90
    /\ After(c, 3).position # After(c, 4).position
    /\ After(c, 3).direction # After(c, 4).direction
    /\ After(c, 4).position = Pt(0, 0)

\* C6: the segment an 'F' emits runs from the position along the heading
\* over the effective length base_length x scale_factor^depth, depth being
\* the bracket depth of the string at that 'F', however many branches were
\* opened and closed before it; an 'F' at the origin with the initial heading
\* emits the segment from (0,0) to (0, L x s^depth).
C6_LengthIsDepthPower ==
  \A c \in Calls :
    \A k \in 1..Len(hist[c]) - 1 :
      symbols[c][k] = "F" =>
        LET seg == After(c, k).output[Len(After(c, k).output)]
            before == After(c, k - 1)
            len == line_length[c] * Pow(scale_factor[c], NestDepth(symbols[c], k - 1))
        IN /\ seg[1] = before.position
           /\ seg[2] = VecAdd(before.position, VecScale(before.direction, len))
           /\ (before.position = Pt(0, 0) /\ before.direction = Pt(0, 1)) =>
                seg = <<Pt(0, 0), Pt(0, len)>>

\* C6 witness: an 'F' at depth 1 after a sibling branch was opened and closed,
\* with a scale factor other than 1.
C6_Witness ==
  \E c \in Calls :
    /\ pc[c] = "loop" /\ ip[c] = 4
    /\ symbols[c][1] = "[" /\ symbols[c][2] = "]"
    /\ symbols[c][3] = "[" /\ symbols[c][4] = "F"
    /\ scale_factor[c] = 2 /\ line_length[c] = 2
    /\ output[c][1] = <<Pt(0, 0), Pt(0, 4)>>

\* C7: a ']' processed with an empty stack changes no local and raises no
\* error; two calls that differ only by an unmatched trailing ']' return the
\* same segments and end in the same turtle state.
C7_UnmatchedPopIsNoOp ==
  /\ \A c \in Calls :
       \A k \in 1..Len(hist[c]) - 1 :
         (symbols[c][k] = "]" /\ After(c, k - 1).stack = <<>>) =>
           /\ After(c, k) = After(c, k - 1)
           /\ pc[c] # "err"
  /\ \A c \in Calls, d \in Calls :
       (/\ pc[c] = "ok" /\ pc[d] = "ok"
        /\ SameConfig(c, d)
        /\ symbols[d] = Append(symbols[c], "]")
        /\ NestDepth(symbols[c], Len(symbols[c])) = 0)
       => /\ result[d] = result[c]
          /\ After(d, Len(symbols[d])) = After(c, Len(symbols[c]))

\* C7 witness: two calls have returned, the second on the input of the first
\* with an unmatched ']' appended, after segments were emitted.
C7_Witness ==
  /\ pc[1] = "ok" /\ pc[2] = "ok"
  /\ SameConfig(1, 2)
  /\ symbols[1] = <<"F", "]", "+", "F">>
  /\ symbols[2] = <<"F", "]", "+", "F", "]">>
  /\ rotation_angle[1] = 90
  /\ Len(result[2].positions) = 2

\* C8: the loop starts from position (0,0), heading (0,1), depth 0 and an
\* empty stack, and interpret("F", 0, 1, 1, 0) returns the one segment from
\* (0,0) to (0,1).
C8_StartStateAndSingleF ==
  \A c \in Calls :
    /\ Running(c) =>
         /\ After(c, 0).position = Pt(0, 0)
         /\ After(c, 0).direction = Pt(0, 1)
         /\ After(c, 0).bracket_depth = 0
         /\ After(c, 0).stack = <<>>
         /\ After(c, 0).output = <<>>
    /\ (pc[c] = "ok" /\ symbols[c] = <<"F">> /\ IsConfig(c, <<0, 1, 1, 0>>)) =>
         /\ result[c].kind = "Ok"
         /\ result[c].positions = << <<Pt(0, 0), Pt(0, 1)>> >>

\* C8 witness: interpret("F", 0, 1, 1, 0) has returned.
C8_Witness ==
  \E c \in Calls :
    /\ pc[c] = "ok" /\ symbols[c] = <<"F">> /\ IsConfig(c, <<0, 1, 1, 0>>)
    /\ Len(result[c].positions) = 1

\* C9: two calls with the same arguments that are at the same point are in
\* the same state and return the same result, whatever the hash keys of each
\* and whatever either slot ran before.
C9_Deterministic ==
  \A c \in Calls, d \in Calls :
    (/\ symbols[c] = symbols[d] /\ SameConfig(c, d)
     /\ pc[c] = pc[d] /\ vi[c] = vi[d] /\ ip[c] = ip[d])
    => /\ Snapshot(c) = Snapshot(d)
       /\ hist[c] = hist[d]
       /\ result[c] = result[d]

\* C9 witness: both slots have returned segments for the same arguments, with
\* different hash keys.
C9_Witness ==
  /\ pc[1] = "ok" /\ pc[2] = "ok"
  /\ symbols[1] = symbols[2] /\ SameConfig(1, 2)
  /\ symbols[1] = <<"[", "[", "+", "F", "]", "]", "-", "F">>
  /\ rotation_angle[1] = 90
  /\ hash_seed[1] # hash_seed[2]

\* C10: on an input with well-formed brackets the stack size equals the
\* bracket depth after every processed symbol, and both are 0 at the end.
C10_StackMatchesDepth ==
  \A c \in Calls :
    (Running(c) /\ WellFormed(symbols[c])) =>
      /\ \A m \in 0..Len(hist[c]) - 1 :
           Len(After(c, m).stack) = After(c, m).bracket_depth
      /\ Len(stack[c]) = bracket_depth[c]
      /\ ip[c] = Len(symbols[c]) => (bracket_depth[c] = 0 /\ stack[c] = <<>>)

\* C10 witness: a call on a well-formed input is inside two nested branches.
C10_Witness ==
  \E c \in Calls :
    /\ pc[c] = "loop" /\ ip[c] = 2
    /\ symbols[c] = <<"[", "[", "]", "]">>
    /\ bracket_depth[c] = 2 /\ Len(stack[c]) = 2
\* C11: on every valid input, with unmatched or leading ']' too, the bracket
\* depth is never negative; a '[' adds one, a ']' that pops a frame takes one
\* away, and no other symbol (nor a ']' on an empty stack) changes it.
C11_DepthNeverNegative ==
  \A c \in Calls :
    Running(c) =>
      /\ bracket_depth[c] >= 0
      /\ \A m \in 0..Len(hist[c]) - 1 : After(c, m).bracket_depth >= 0
      /\ \A k \in 1..Len(hist[c]) - 1 :
           LET was == After(c, k - 1)
               now == After(c, k)
           IN CASE symbols[c][k] = "[" -> now.bracket_depth = was.bracket_depth + 1
                [] symbols[c][k] = "]" ->
                     IF was.stack # <<>>
                     THEN /\ now.bracket_depth = was.bracket_depth - 1
                          /\ Len(now.stack) = Len(was.stack) - 1
                     ELSE now.bracket_depth = was.bracket_depth
                [] OTHER -> now.bracket_depth = was.bracket_depth

\* C11 witness: a call has processed two leading ']' and then opened a branch.
C11_Witness ==
  \E c \in Calls :
    /\ pc[c] = "loop" /\ ip[c] = 3
    /\ symbols[c][1] = "]" /\ symbols[c][2] = "]" /\ symbols[c][3] = "["
    /\ After(c, 2).bracket_depth = 0
    /\ bracket_depth[c] = 1
\* C12: the output only grows, by one segment at the end per 'F': the i-th
\* segment is the one the i-th 'F' emitted and stays as it was emitted
\* through every later symbol, a ']' that restores an earlier position
\* included, up to the returned sequence.
C12_OutputAppendOnly ==
  \A c \in Calls :
    Running(c) =>
      /\ \A k \in 1..Len(hist[c]) - 1 :
           LET was == After(c, k - 1)
               now == After(c, k)
               i == CountF(symbols[c], k)
           IN IF symbols[c][k] = "F"
              THEN /\ now.output = Append(was.output, <<was.position, now.position>>)
                   /\ Len(now.output) = i
                   /\ i <= Len(output[c])
                   /\ output[c][i] = <<was.position, now.position>>
              ELSE now.output = was.output
      /\ pc[c] = "ok" => result[c].positions = output[c]

\* C12 witness: a ']' has restored the position before a branch that drew a
\* segment, and both segments are in the output.
C12_Witness ==
  \E c \in Calls :
    /\ pc[c] = "loop" /\ ip[c] = 4
    /\ symbols[c] = <<"F", "[", "F", "]">>
    /\ Len(output[c]) = 2
    /\ position[c] = output[c][1][2]
    /\ position[c] # output[c][2][2]
RECURSIVE AloneAfter(_, _, _)
\* The locals of a call of interpret(s, cfg) run by itself, from lines 22-28
\* through its first m characters: the sequential reading of the loop.
AloneAfter(s, cfg, m) ==
  IF m = 0
  THEN [ position |-> ZERO, direction |-> Y, current_scale |-> 1,
         bracket_depth |-> 0, stack |-> <<>>, output |-> <<>> ]
  ELSE LET p == AloneAfter(s, cfg, m - 1)
           angle == cfg[1] * (1 + cfg[4] * p.bracket_depth)
           len == cfg[2] * p.current_scale * Pow(cfg[3], p.bracket_depth)
           new_position == VecAdd(p.position, VecScale(p.direction, len))
       IN CASE s[m] = "F" ->
                 [p EXCEPT !.output = Append(@, <<p.position, new_position>>),
                           !.position = new_position]
            [] s[m] = "+" -> [p EXCEPT !.direction = RotateZ(-angle, @)]
            [] s[m] = "-" -> [p EXCEPT !.direction = RotateZ(angle, @)]
            [] s[m] = "[" ->
                 [p EXCEPT !.stack = Append(@, <<p.position, p.direction, p.current_scale>>),
                           !.bracket_depth = @ + 1]
            [] s[m] = "]" ->
                 IF p.stack = <<>> THEN p
                 ELSE [p EXCEPT !.stack = SubSeq(@, 1, Len(@) - 1),
                                !.position = p.stack[Len(p.stack)][1],
                                !.direction = p.stack[Len(p.stack)][2],
                                !.current_scale = p.stack[Len(p.stack)][3],
                                !.bracket_depth = @ - 1]
            [] OTHER -> p

ConfigOf(c) == <<rotation_angle[c], line_length[c], scale_factor[c], angle_variation[c]>>

\* Everything slot c holds.
Slot(c) ==
  << pc[c], symbols[c], ConfigOf(c), hash_seed[c], vi[c], Snapshot(c), ip[c],
     result[c], hist[c] >>

\* C13: with the steps of two calls interleaved in any order, each call is at
\* every point in the state, and returns the result, of the same call run by
\* itself; and no step changes anything of a call other than the one that
\* takes it.
C13_NoInterference ==
  /\ [](\A c \in Calls :
          /\ Running(c) =>
               /\ Snapshot(c) = AloneAfter(symbols[c], ConfigOf(c), ip[c])
               /\ After(c, ip[c]) = Snapshot(c)
          /\ pc[c] = "ok" =>
               /\ result[c].kind = "Ok"
               /\ result[c].positions =
                    AloneAfter(symbols[c], ConfigOf(c), Len(symbols[c])).output
          /\ pc[c] = "err" => (HasInvalid(symbols[c]) /\ result[c].kind = "Err")
          /\ HasInvalid(symbols[c]) => ~Running(c))
  /\ [][\A c \in Calls, d \in Calls :
          c # d => (Slot(c)' = Slot(c) \/ Slot(d)' = Slot(d))]_vars

\* C13 witness: both calls are in the middle of their loops, on different
\* inputs, each inside a branch.
C13_Witness ==
  /\ pc[1] = "loop" /\ pc[2] = "loop"
  /\ symbols[1] = <<"[", "[", "+", "F", "]", "]", "-", "F">>
  /\ symbols[2] = <<"[", "F", "]", "[", "F", "]">>
  /\ ip[1] = 4 /\ ip[2] = 2
  /\ bracket_depth[1] = 2 /\ bracket_depth[2] = 1
  /\ rotation_angle[1] = 90
\* C14: current_scale is 1 in every state of a run and in every frame pushed
\* on the stack: nothing assigns it but the ']' restore, which writes back the
\* 1 that '[' saved. The length an 'F' uses is then line_length times
\* scale_factor to the power of the depth, whatever came before.
C14_CurrentScaleIsOne ==
  \A c \in Calls :
    Running(c) =>
      /\ \A m \in 0..Len(hist[c]) - 1 :
           /\ After(c, m).current_scale = 1
           /\ \A i \in 1..Len(After(c, m).stack) : After(c, m).stack[i][3] = 1
      /\ current_scale[c] = 1
      /\ \A i \in 1..Len(stack[c]) : stack[c][i][3] = 1
      /\ \A k \in 1..Len(hist[c]) - 1 :
           symbols[c][k] = "F" =>
             LET was == After(c, k - 1)
                 len == line_length[c] * Pow(scale_factor[c], was.bracket_depth)
             IN After(c, k).position =
                  VecAdd(was.position, VecScale(was.direction, len))

\* C14 witness: with scale_factor 2, two frames are on the stack after a
\* branch was opened, closed and two more opened.
C14_Witness ==
  \E c \in Calls :
    /\ pc[c] = "loop" /\ ip[c] = 4
    /\ scale_factor[c] = 2
    /\ symbols[c] = <<"[", "]", "[", "[">>
    /\ Len(stack[c]) = 2
    /\ current_scale[c] = 1

\* C15: a turn at depth d rotates the heading about the z axis by
\* rotation_angle * (1 + angle_variation * d) degrees, '+' by minus that angle
\* and '-' by plus that angle; at depth 0 the angle is rotation_angle.
C15_TurnAngleGrowsWithDepth ==
  \A c \in Calls :
    Running(c) =>
      \A k \in 1..Len(hist[c]) - 1 :
        LET was == After(c, k - 1)
            now == After(c, k)
            d == NestDepth(symbols[c], k - 1)
            angle == rotation_angle[c] * (1 + angle_variation[c] * d)
        IN /\ d = was.bracket_depth
           /\ symbols[c][k] = "+" => now.direction = RotateZ(-angle, was.direction)
           /\ symbols[c][k] = "-" => now.direction = RotateZ(angle, was.direction)
           /\ (symbols[c][k] \in {"+", "-"} /\ d = 0) =>
                now.direction \in { RotateZ(rotation_angle[c], was.direction),
                                    RotateZ(-rotation_angle[c], was.direction) }

\* C15 witness: a '-' at depth 2 with rotation_angle 90 and angle_variation 1
\* has turned the heading by 270 degrees, which a 90 degree turn does not.
C15_Witness ==
  \E c \in Calls :
    /\ pc[c] = "loop" /\ ip[c] = 3
    /\ symbols[c][1] = "[" /\ symbols[c][2] = "[" /\ symbols[c][3] = "-"
    /\ rotation_angle[c] = 90 /\ angle_variation[c] = 1
    /\ direction[c] = RotateZ(270, Y)
    /\ direction[c] # RotateZ(90, Y)
Eps == <<Two23, -44>>

\* Vectors u and v agree to within Eps in each coordinate.
Near(u, v) ==
  /\ FLeq(FAbs(FAdd(u[1], FNeg(v[1]))), Eps)
  /\ FLeq(FAbs(FAdd(u[2], FNeg(v[2]))), Eps)

\* The symbols k and k + 1 of s are a '+' and a '-' in either order.
OppositeTurns(s, k) ==
  /\ k + 1 <= Len(s)
  /\ <<s[k], s[k + 1]>> \in { <<"+", "-">>, <<"-", "+">> }

\* The first k symbols of s are all turns.
RECURSIVE OnlyTurns(_, _)
OnlyTurns(s, k) == k = 0 \/ (s[k] \in {"+", "-"} /\ OnlyTurns(s, k - 1))

\* The number of '-' minus the number of '+' among the first k symbols of s.
RECURSIVE NetTurns(_, _)
NetTurns(s, k) ==
  IF k = 0 THEN 0
  ELSE NetTurns(s, k - 1) + (CASE s[k] = "-" -> 1 [] s[k] = "+" -> -1 [] OTHER -> 0)

Before(k) == frames[k]

Since(k) ==
  IF k = Len(frames) THEN [linvel |-> linvel, elapsed |-> elapsed]
  ELSE [linvel |-> frames[k + 1].linvel, elapsed |-> frames[k + 1].elapsed]

\* C19 as stated: a force with duration Some(d) acts only for that long. In
\* every frame that starts with the force expired (elapsed >= d), the
\* entity's velocity is left as it was; a force with duration None is never
\* expired and changes the velocity of a body that is not skipped in every
\* frame by acceleration * dt.
C19_ExpiredForceNotApplied ==
  \A e \in Entities :
    /\ duration[e] = None => ~is_expired(e)
    /\ \A k \in 1..Len(frames) :
         /\ (duration[e] # None /\ ~FLt(Before(k).elapsed[e], duration[e][1])) =>
              Since(k).linvel[e] = Before(k).linvel[e]
         /\ (duration[e] = None /\ ~mass[e].is_infinite /\ ~is_negligible(mass[e])) =>
              Since(k).linvel[e] =
                Vec3Add(Before(k).linvel[e], Vec3Scale(Acceleration(e), Before(k).dt))

\* C20: an entity whose mass is infinite or below 0.001 is skipped: in every
\* frame its velocity and its force's elapsed time stay as they were, so its
\* elapsed time stays 0 and its force is expired only if its duration is not
\* positive, as it was from the start. For every other entity each frame adds
\* dt to elapsed (an f32 addition).
C20_SkippedEntitiesUntouched ==
  \A e \in Entities :
    IF mass[e].is_infinite \/ FLt(mass[e].value, Thousandth)
    THEN /\ \A k \in 1..Len(frames) :
              /\ Since(k).linvel[e] = Before(k).linvel[e]
              /\ Since(k).elapsed[e] = Before(k).elapsed[e]
         /\ linvel[e] = Vec3Zero
         /\ elapsed[e] = F0
         /\ is_expired(e) <=> (duration[e] # None /\ ~FLt(F0, duration[e][1]))
    ELSE \A k \in 1..Len(frames) :
           Since(k).elapsed[e] = FAdd(Before(k).elapsed[e], Before(k).dt)

\* C20 witness: after two frames of one second an immovable body with a
\* force of duration 1 is at rest with elapsed 0 and the force not expired,
\* next to a body of mass 1 whose elapsed time is 2 and which moves.
C20_Witness ==
  /\ Len(frames) = 2
  /\ frames[1].dt = One /\ frames[2].dt = One
  /\ mass[1].is_infinite /\ duration[1] = Some(One)
  /\ elapsed[1] = F0 /\ linvel[1] = Vec3Zero /\ ~is_expired(1)
  /\ mass[2] = [value |-> One, is_infinite |-> FALSE]
  /\ elapsed[2] = FromInt(2)
  /\ linvel[2] # Vec3Zero

====
